---- MODULE Spec2Model ----
(***************************************************************************)
(* zen-doc-cli: the file discovery, classification and naming pipeline.    *)
(* Strings are TLA+ strings; Len, SubSeq and \o act on them character by   *)
(* character, so every JavaScript string operation of the source is        *)
(* computed on the characters as the source computes it.                   *)
(***************************************************************************)
EXTENDS Integers, Sequences, FiniteSets, TLC

VARIABLES
    pc,                 \* position of the run (stage of generate, or of a single call)
    cwd,                \* process.cwd()
    sep,                \* path.sep of the host
    tree,               \* the files on disk, each a sequence of entry names below cwd
    unreadable,         \* the directories whose readdir fails and the files whose readFile fails
    gitignore,          \* the .gitignore file at cwd: absent, unreadable, or readable with a content
    allIgnoredPatterns, \* readCodebase: the merged pattern list
    stack,              \* readCodebase: the active calls of traverse
    files,              \* readCodebase: the result list
    visited,            \* the directories readdir was called on
    fileInfos,          \* categorizeFiles: the result list
    idx,                \* categorizeFiles: position of the for loop in files
    arg,                \* argument of the single call under study
    ret,                \* its return value
    grouped,            \* generateDocs: the relevant records grouped by category, in key order
    written,            \* generateDocs: the documents written so far
    sidebar,            \* generateAstroConfig: the sidebar configuration
    errors,             \* generateDocs: the files reported as "Failed to process", in order
    indexes,            \* generateCategoryIndexes: the index.md of each category
    translation,        \* the translation settings, then how handleTranslations ended
    output,             \* moveContentToAstroProject: the files below the output directory
    previous            \* the FileRecords of the run before this one

env  == <<cwd, sep, tree, unreadable, gitignore>>
walk == <<allIgnoredPatterns, stack, files, visited>>
cat  == <<fileInfos, idx>>
call == <<arg, ret>>
docs == <<grouped, written, sidebar, errors, indexes, translation, output, previous>>
vars == <<pc, env, walk, cat, call, docs>>

Null == [null |-> TRUE]

\* generateDocs has not run
NoDocs ==
    /\ grouped = <<>> /\ written = <<>> /\ sidebar = <<>>
    /\ errors = <<>> /\ indexes = <<>>
    /\ translation = [useTranslation |-> FALSE, result |-> "pending"]
    /\ output = {}
    /\ previous = [known |-> FALSE, records |-> <<>>]

(***************************************************************************)
(* JavaScript string primitives                                            *)
(***************************************************************************)
At(s, i) == SubSeq(s, i, i)

startsWith(s, p) == Len(p) <= Len(s) /\ SubSeq(s, 1, Len(p)) = p

endsWith(s, p) == Len(p) <= Len(s) /\ SubSeq(s, Len(s) - Len(p) + 1, Len(s)) = p

\* String.prototype.indexOf, 1-based; 0 when absent
indexOf(s, p) ==
    LET hits == {i \in 1..(Len(s) - Len(p) + 1) : SubSeq(s, i, i + Len(p) - 1) = p}
    IN  IF hits = {} THEN 0 ELSE CHOOSE i \in hits : \A j \in hits : i <= j

includes(s, p) == indexOf(s, p) # 0

\* String.prototype.replace with a string pattern: the first occurrence only
replaceFirst(s, p, r) ==
    LET i == indexOf(s, p)
    IN  IF i = 0 THEN s
        ELSE SubSeq(s, 1, i - 1) \o r \o SubSeq(s, i + Len(p), Len(s))

IsSep(c) == c = "/" \/ c = "\\"

\* .replace(/^[\/\\]+/, "")
RECURSIVE stripLeadingSeps(_)
stripLeadingSeps(s) ==
    IF Len(s) > 0 /\ IsSep(At(s, 1)) THEN stripLeadingSeps(SubSeq(s, 2, Len(s))) ELSE s

\* .replace(/^\/+/, "")
RECURSIVE stripLeadingSlashes(_)
stripLeadingSlashes(s) ==
    IF Len(s) > 0 /\ At(s, 1) = "/" THEN stripLeadingSlashes(SubSeq(s, 2, Len(s))) ELSE s

\* .replace(/\/+$/, "")
RECURSIVE stripTrailingSlashes(_)
stripTrailingSlashes(s) ==
    IF Len(s) > 0 /\ At(s, Len(s)) = "/"
    THEN stripTrailingSlashes(SubSeq(s, 1, Len(s) - 1)) ELSE s

\* String.prototype.split with a one-character separator
RECURSIVE split(_, _)
split(s, c) ==
    LET i == indexOf(s, c)
    IN  IF i = 0 THEN <<s>>
        ELSE <<SubSeq(s, 1, i - 1)>> \o split(SubSeq(s, i + 1, Len(s)), c)

\* Array.prototype.join
RECURSIVE join(_, _)
join(parts, c) ==
    IF Len(parts) = 0 THEN ""
    ELSE IF Len(parts) = 1 THEN parts[1]
    ELSE parts[1] \o c \o join(Tail(parts), c)

\* .replace(/[\/\\]/g, "/"): every backslash becomes a slash, a slash stays one
slashes(s) == join(split(s, "\\"), "/")

UpperCase == "ABCDEFGHIJKLMNOPQRSTUVWXYZ"
LowerCase == "abcdefghijklmnopqrstuvwxyz"
Digits    == "0123456789"

UpperLetters == {At(UpperCase, i) : i \in 1..Len(UpperCase)}

RECURSIVE lowerFrom(_, _)
lowerFrom(s, i) ==
    IF i > Len(s) THEN ""
    ELSE (IF At(s, i) \in UpperLetters THEN At(LowerCase, indexOf(UpperCase, At(s, i)))
          ELSE At(s, i)) \o lowerFrom(s, i + 1)

toLowerCase(s) == lowerFrom(s, 1)

IsSpace(c) == c \in {" ", "\t", "\n", "\r"}

RECURSIVE trimStart(_)
trimStart(s) ==
    IF Len(s) > 0 /\ IsSpace(At(s, 1)) THEN trimStart(SubSeq(s, 2, Len(s))) ELSE s

RECURSIVE trimEnd(_)
trimEnd(s) ==
    IF Len(s) > 0 /\ IsSpace(At(s, Len(s))) THEN trimEnd(SubSeq(s, 1, Len(s) - 1)) ELSE s

trim(s) == trimEnd(trimStart(s))

\* Array.prototype.pop() on a non-empty array: its last element
last(parts) == parts[Len(parts)]

\* [...new Set(xs)]: first occurrences, in order
RECURSIVE dedup(_)
dedup(xs) ==
    IF Len(xs) = 0 THEN <<>>
    ELSE LET init == dedup(SubSeq(xs, 1, Len(xs) - 1))
             x    == xs[Len(xs)]
         IN  IF \E i \in 1..Len(init) : init[i] = x THEN init ELSE Append(init, x)

\* Array.prototype.filter / map for the pipelines below
RECURSIVE filterNonComment(_)
filterNonComment(ls) ==
    IF Len(ls) = 0 THEN <<>>
    ELSE (IF ls[1] # "" /\ ~startsWith(ls[1], "#") THEN <<ls[1]>> ELSE <<>>)
         \o filterNonComment(Tail(ls))

(***************************************************************************)
(* fileRead.ts: readCodebase                                               *)
(***************************************************************************)
ignoredFolders == <<"node_modules", "dist", ".next", ".git">>

\* the gitignore pipeline: split, trim, drop blanks and comments, strip slashes
gitignorePatterns(content) ==
    LET ls == filterNonComment([i \in 1..Len(split(content, "\n")) |->
                                    trim(split(content, "\n")[i])])
    IN  [i \in 1..Len(ls) |-> stripTrailingSlashes(stripLeadingSlashes(ls[i]))]

\* relativeOf without its last replace: the host's separators are kept
relativeOf_hostSeparators(path, dir) == stripLeadingSeps(replaceFirst(path, dir, ""))

\* path.replace(process.cwd(), "").replace(/^[\/\\]+/, "").replace(/[\/\\]/g, "/")
relativeOf(path, dir) == slashes(stripLeadingSeps(replaceFirst(path, dir, "")))

patternMatches(relativePath, pattern) ==
    LET normalizedPattern == slashes(pattern)
    IN  IF endsWith(normalizedPattern, "/")
        THEN LET dirPattern == SubSeq(normalizedPattern, 1, Len(normalizedPattern) - 1)
             IN  startsWith(relativePath, dirPattern \o "/") \/ relativePath = dirPattern
        ELSE relativePath = normalizedPattern
             \/ endsWith(relativePath, "/" \o normalizedPattern)

shouldIgnore(path, dir, patterns) ==
    LET relativePath == relativeOf(path, dir)
    IN  IF includes(relativePath, "(") /\ includes(relativePath, ")")
        THEN FALSE
        ELSE \E i \in 1..Len(patterns) : patternMatches(relativePath, patterns[i])

\* path.join(currentDir, entry.name)
pathJoin(dir, name) == IF endsWith(dir, sep) THEN dir \o name ELSE dir \o sep \o name

(***************************************************************************)
(* The file system under process.cwd()                                     *)
(***************************************************************************)
IsPrefix(node, f) == Len(node) <= Len(f) /\ SubSeq(f, 1, Len(node)) = node

Dirs(t) == {SubSeq(f, 1, k) : <<f, k>> \in {<<g, j>> \in t \X (0..8) : j < Len(g)}}

ChildNames(t, node) == {f[Len(node) + 1] : f \in {g \in t : Len(g) > Len(node) /\ IsPrefix(node, g)}}

\* entry.isDirectory()
isDirectory(t, node) == node \in Dirs(t)

\* the order in which readdir lists the names of one directory
DirOrder ==
    <<"Makefile", ".git", "(auth)", "api", "app", "build", "buildtools", "components",
      "dist", "docs", "lib", "node_modules", "p", "src", "ui", "users",
      "Button.tsx", "a\\b.ts", "file.ts", "layout.tsx", "package.json", "page.tsx",
      "route.ts", "utils.ts", "x.js", "x.ts",
      "content", "temp-zen-docs-1", "Button-component.md", "astro.config.mjs",
      "index.md", "index.mdx">>

RECURSIVE listing(_, _)
listing(names, k) ==
    IF k > Len(DirOrder) THEN <<>>
    ELSE (IF DirOrder[k] \in names THEN <<DirOrder[k]>> ELSE <<>>) \o listing(names, k + 1)

\* readdir(currentDir, { withFileTypes: true }) of a readable directory
readdir(t, node) == listing(ChildNames(t, node), 1)

\* the absolute path of a node, as repeated path.join builds it
RECURSIVE fullPathOf(_, _, _)
fullPathOf(node, dir, s) ==
    IF Len(node) = 0 THEN dir
    ELSE LET parent == fullPathOf(SubSeq(node, 1, Len(node) - 1), dir, s)
         IN  IF endsWith(parent, s) THEN parent \o last(node) ELSE parent \o s \o last(node)

(***************************************************************************)
(* readCodebase as a process: .gitignore, then the recursive traverse      *)
(***************************************************************************)
Frame(dir, node) == [currentDir |-> dir, node |-> node, listed |-> FALSE, entries |-> <<>>, i |-> 0,
                     relativePath |-> ""]

Top == stack[Len(stack)]

SetTop(f) == [stack EXCEPT ![Len(stack)] = f]

StartTraverse(patterns) ==
    /\ allIgnoredPatterns' = dedup(patterns \o ignoredFolders)
    /\ stack' = <<Frame(cwd, <<>>)>>
    /\ pc' = "traverse"
    /\ UNCHANGED <<env, files, visited, cat, call, docs>>

\* existsSync(gitignorePath) is false
GitignoreAbsent ==
    /\ pc = "readCodebase"
    /\ gitignore.state = "absent"
    /\ StartTraverse(<<>>)

\* readFile throws: the catch leaves gitignorePatterns empty
GitignoreUnreadable ==
    /\ pc = "readCodebase"
    /\ gitignore.state = "unreadable"
    /\ StartTraverse(<<>>)

GitignoreRead ==
    /\ pc = "readCodebase"
    /\ gitignore.state = "readable"
    /\ StartTraverse(gitignorePatterns(gitignore.content))

\* await readdir(currentDir) succeeds
ReaddirOk ==
    /\ pc = "traverse"
    /\ ~Top.listed
    /\ Top.node \notin unreadable
    /\ stack' = SetTop([Top EXCEPT !.listed = TRUE, !.entries = readdir(tree, Top.node), !.i = 1])
    /\ visited' = visited \cup {Top.node}
    /\ UNCHANGED <<pc, env, allIgnoredPatterns, files, cat, call, docs>>

\* a traverse call ends: back in the caller's loop, or readCodebase returns files
Unwind ==
    IF Len(stack) = 1
    THEN stack' = <<>> /\ pc' = "categorizeFiles"
    ELSE stack' = SubSeq(stack, 1, Len(stack) - 1) /\ pc' = pc

\* ReaddirFail without the try/catch: the error leaves readCodebase
ReaddirFail_uncaught ==
    /\ pc = "traverse"
    /\ ~Top.listed
    /\ Top.node \in unreadable
    /\ stack' = <<>>
    /\ pc' = "failed"
    /\ visited' = visited \cup {Top.node}
    /\ UNCHANGED <<env, allIgnoredPatterns, files, cat, call, docs>>

\* await readdir(currentDir) throws: the catch ends this traverse call
ReaddirFail ==
    /\ pc = "traverse"
    /\ ~Top.listed
    /\ Top.node \in unreadable
    /\ Unwind
    /\ visited' = visited \cup {Top.node}
    /\ UNCHANGED <<env, allIgnoredPatterns, files, cat, call, docs>>

HasEntry == pc = "traverse" /\ Top.listed /\ Top.i <= Len(Top.entries)

entryName == Top.entries[Top.i]

entryNode == Append(Top.node, entryName)

entryFullPath == pathJoin(Top.currentDir, entryName)

entryRelativePath == relativeOf(entryFullPath, cwd)

Advance == [Top EXCEPT !.i = Top.i + 1, !.relativePath = entryRelativePath]

EntryDirTraverse ==
    /\ HasEntry
    /\ isDirectory(tree, entryNode)
    /\ ~shouldIgnore(entryRelativePath, cwd, allIgnoredPatterns)
    /\ stack' = Append(SetTop(Advance), Frame(entryFullPath, entryNode))
    /\ UNCHANGED <<pc, env, allIgnoredPatterns, files, visited, cat, call, docs>>

EntryDirIgnored ==
    /\ HasEntry
    /\ isDirectory(tree, entryNode)
    /\ shouldIgnore(entryRelativePath, cwd, allIgnoredPatterns)
    /\ stack' = SetTop(Advance)
    /\ UNCHANGED <<pc, env, allIgnoredPatterns, files, visited, cat, call, docs>>

EntryFileKept ==
    /\ HasEntry
    /\ ~isDirectory(tree, entryNode)
    /\ ~shouldIgnore(entryRelativePath, cwd, allIgnoredPatterns)
    /\ files' = Append(files, entryFullPath)
    /\ stack' = SetTop(Advance)
    /\ UNCHANGED <<pc, env, allIgnoredPatterns, visited, cat, call, docs>>

\* EntryFileIgnored leaving the loop instead of going on with the next entry
EntryFileIgnored_return ==
    /\ HasEntry
    /\ ~isDirectory(tree, entryNode)
    /\ shouldIgnore(entryRelativePath, cwd, allIgnoredPatterns)
    /\ stack' = SetTop([Advance EXCEPT !.i = Len(Top.entries) + 1])
    /\ UNCHANGED <<pc, env, allIgnoredPatterns, files, visited, cat, call, docs>>

EntryFileIgnored ==
    /\ HasEntry
    /\ ~isDirectory(tree, entryNode)
    /\ shouldIgnore(entryRelativePath, cwd, allIgnoredPatterns)
    /\ stack' = SetTop(Advance)
    /\ UNCHANGED <<pc, env, allIgnoredPatterns, files, visited, cat, call, docs>>

\* the for loop of a traverse call is over
TraverseReturn ==
    /\ pc = "traverse"
    /\ Top.listed
    /\ Top.i > Len(Top.entries)
    /\ Unwind
    /\ UNCHANGED <<env, allIgnoredPatterns, files, visited, cat, call, docs>>

(***************************************************************************)
(* fileRead.ts: categorizeFiles and determineCategory                      *)
(***************************************************************************)
Categories == {"components", "pages", "api", "lib", "config", "other"}

ConfigExtensions == {"json", "yaml", "yml", "toml", "config.js", "config.ts"}

\* determineCategory with the directory rules tried before the page-entry name
determineCategory_directoriesFirst(relativePath, content, extension) ==
    LET path     == toLowerCase(relativePath)
        fileName == last(split(relativePath, "/"))
    IN  IF \/ includes(path, "/components/")
           \/ includes(path, "/component/")
           \/ startsWith(path, "components/")
        THEN "components"
        ELSE IF \/ includes(path, "/api/")
                \/ includes(path, "/routes/")
                \/ startsWith(path, "api/")
        THEN "api"
        ELSE IF fileName \in {"page.tsx", "page.js", "page.ts", "page.jsx"}
        THEN "pages"
        ELSE IF \/ includes(path, "/lib/")
                \/ includes(path, "/utils/")
                \/ includes(path, "/helpers/")
                \/ startsWith(path, "lib/")
                \/ startsWith(path, "utils/")
                \/ startsWith(path, "helpers/")
        THEN "lib"
        ELSE IF \/ extension \in ConfigExtensions
                \/ includes(fileName, "config")
                \/ includes(fileName, "package")
                \/ includes(fileName, "tsconfig")
        THEN "config"
        ELSE "other"

determineCategory(relativePath, content, extension) ==
    LET path     == toLowerCase(relativePath)
        fileName == last(split(relativePath, "/"))
    IN  IF fileName \in {"page.tsx", "page.js", "page.ts", "page.jsx"}
        THEN "pages"
        ELSE IF \/ includes(path, "/components/")
                \/ includes(path, "/component/")
                \/ startsWith(path, "components/")
        THEN "components"
        ELSE IF \/ includes(path, "/api/")
                \/ includes(path, "/routes/")
                \/ startsWith(path, "api/")
        THEN "api"
        ELSE IF \/ includes(path, "/lib/")
                \/ includes(path, "/utils/")
                \/ includes(path, "/helpers/")
                \/ startsWith(path, "lib/")
                \/ startsWith(path, "utils/")
                \/ startsWith(path, "helpers/")
        THEN "lib"
        ELSE IF \/ extension \in ConfigExtensions
                \/ includes(fileName, "config")
                \/ includes(fileName, "package")
                \/ includes(fileName, "tsconfig")
        THEN "config"
        ELSE "other"

\* the record categorizeFiles builds from one path and its content
FileInfo(filePath, content, dir) ==
    LET relativePath == relativeOf(filePath, dir)
        fileName     == last(split(relativePath, "/"))
        extension    == toLowerCase(last(split(fileName, ".")))
    IN  [path         |-> filePath,
         content      |-> content,
         category     |-> determineCategory(relativePath, content, extension),
         relativePath |-> relativePath,
         fileName     |-> fileName,
         extension    |-> extension]

\* the file a path of the result list names, and what readFile returns for it
nodeOf(filePath) == CHOOSE f \in tree : fullPathOf(f, cwd, sep) = filePath

ContentOf(f) ==
    IF last(f) = "route.ts" THEN "export async function POST(req) {}"
    ELSE IF last(f) = "x.js" THEN "module.exports = 1"
    ELSE IF endsWith(last(f), ".md") \/ endsWith(last(f), ".mdx") THEN "---\ntitle: Docs\n---\n"
    ELSE IF last(f) = "astro.config.mjs" THEN "export default defineConfig({})"
    ELSE "export default function View() {}"

\* a file classified as soon as the walk has pushed it
CategorizeFile_streaming ==
    /\ pc \in {"traverse", "categorizeFiles"}
    /\ idx <= Len(files)
    /\ nodeOf(files[idx]) \notin unreadable
    /\ fileInfos' = Append(fileInfos, FileInfo(files[idx], ContentOf(nodeOf(files[idx])), cwd))
    /\ idx' = idx + 1
    /\ UNCHANGED <<pc, env, walk, call, docs>>

CategorizeFile ==
    /\ pc = "categorizeFiles"
    /\ idx <= Len(files)
    /\ nodeOf(files[idx]) \notin unreadable
    /\ fileInfos' = Append(fileInfos, FileInfo(files[idx], ContentOf(nodeOf(files[idx])), cwd))
    /\ idx' = idx + 1
    /\ UNCHANGED <<pc, env, walk, call, docs>>

\* readFile throws and nothing catches it: categorizeFiles rejects
CategorizeReadFails_uncaught ==
    /\ pc = "categorizeFiles"
    /\ idx <= Len(files)
    /\ nodeOf(files[idx]) \in unreadable
    /\ pc' = "failed"
    /\ UNCHANGED <<env, walk, cat, call, docs>>

\* readFile throws: the catch drops the file and the loop goes on
CategorizeReadFails ==
    /\ pc = "categorizeFiles"
    /\ idx <= Len(files)
    /\ nodeOf(files[idx]) \in unreadable
    /\ idx' = idx + 1
    /\ UNCHANGED <<pc, env, walk, fileInfos, call, docs>>

CategorizeReturn ==
    /\ pc = "categorizeFiles"
    /\ idx > Len(files)
    /\ pc' = "generateDocs"
    /\ UNCHANGED <<env, walk, cat, call, docs>>

(***************************************************************************)
(* contentProcessing.ts: getRouteFromPath and getHttpMethodFromFile        *)
(***************************************************************************)
\* .replace(/\.[^/.]+$/, ""): the last dot and what follows it, when that is
\* one or more characters other than "/" and "."
removeExtension(s) ==
    LET dots == {i \in 1..Len(s) : At(s, i) = "."}
    IN  IF dots = {} THEN s
        ELSE LET d == CHOOSE i \in dots : \A j \in dots : j <= i
             IN  IF d < Len(s) /\ \A j \in (d + 1)..Len(s) : At(s, j) # "/"
                 THEN SubSeq(s, 1, d - 1)
                 ELSE s

\* String.prototype.slice(a, -1) with a zero-based start a
sliceToLast(s, a) == SubSeq(s, a + 1, Len(s) - 1)

routeKeeps(part) ==
    /\ ~startsWith(part, "temp-zen-docs-")
    /\ part # "content" /\ part # "docs"
    /\ part # ""
    /\ ~(startsWith(part, "(") /\ endsWith(part, ")"))

routeSegment(part) ==
    LET withoutExt == removeExtension(part)
    IN  IF startsWith(withoutExt, "[") /\ endsWith(withoutExt, "]")
        THEN ":" \o sliceToLast(withoutExt, 1)
        ELSE IF startsWith(withoutExt, "[...") /\ endsWith(withoutExt, "]")
        THEN "*" \o sliceToLast(withoutExt, 4)
        ELSE withoutExt

RECURSIVE routeParts(_)
routeParts(parts) ==
    IF Len(parts) = 0 THEN <<>>
    ELSE (IF routeKeeps(parts[1]) THEN <<routeSegment(parts[1])>> ELSE <<>>)
         \o routeParts(Tail(parts))

getRouteFromPath(relativePath) == "/" \o join(routeParts(split(slashes(relativePath), "/")), "/")

HttpVerbs == <<"get", "post", "put", "delete", "patch">>

\* the first index at or after i that holds no white space
RECURSIVE skipSpaces(_, _)
skipSpaces(s, i) == IF i <= Len(s) /\ IsSpace(At(s, i)) THEN skipSpaces(s, i + 1) ELSE i

wordAt(s, i, w) == i + Len(w) - 1 <= Len(s) /\ SubSeq(s, i, i + Len(w) - 1) = w

\* /export\s+(?:async\s+)?function\s+(GET|POST|PUT|DELETE|PATCH)/i tried at
\* index i of the lower-cased content: the verb matched, or "" when none
handlerAt(s, i) ==
    IF ~wordAt(s, i, "export") \/ skipSpaces(s, i + 6) = i + 6 THEN ""
    ELSE LET a == skipSpaces(s, i + 6)
             f == IF wordAt(s, a, "async") /\ skipSpaces(s, a + 5) > a + 5
                  THEN skipSpaces(s, a + 5) ELSE a
         IN  IF ~wordAt(s, f, "function") \/ skipSpaces(s, f + 8) = f + 8 THEN ""
             ELSE LET v == skipSpaces(s, f + 8)
                      hits == {k \in 1..Len(HttpVerbs) : wordAt(s, v, HttpVerbs[k])}
                  IN  IF hits = {} THEN "" ELSE HttpVerbs[CHOOSE k \in hits : TRUE]

\* content.match(...): the verb of the leftmost match, lower-cased, or "" for null
handlerVerb(content) ==
    LET s    == toLowerCase(content)
        hits == {i \in 1..Len(s) : handlerAt(s, i) # ""}
    IN  IF hits = {} THEN ""
        ELSE handlerAt(s, CHOOSE i \in hits : \A j \in hits : i <= j)

\* the content consulted before the file name
getHttpMethodFromFile_contentFirst(file) ==
    LET fileName == toLowerCase(file.fileName)
    IN  IF handlerVerb(file.content) # "" THEN handlerVerb(file.content)
        ELSE IF includes(fileName, "get.") THEN "get"
        ELSE IF includes(fileName, "post.") THEN "post"
        ELSE IF includes(fileName, "put.") THEN "put"
        ELSE IF includes(fileName, "delete.") THEN "delete"
        ELSE IF includes(fileName, "patch.") THEN "patch"
        ELSE "get"

getHttpMethodFromFile(file) ==
    LET fileName == toLowerCase(file.fileName)
    IN  IF fileName = "route.ts" \/ fileName = "route.js"
        THEN (IF handlerVerb(file.content) # "" THEN handlerVerb(file.content) ELSE "get")
        ELSE IF includes(fileName, "get.") THEN "get"
        ELSE IF includes(fileName, "post.") THEN "post"
        ELSE IF includes(fileName, "put.") THEN "put"
        ELSE IF includes(fileName, "delete.") THEN "delete"
        ELSE IF includes(fileName, "patch.") THEN "patch"
        ELSE IF handlerVerb(file.content) # "" THEN handlerVerb(file.content)
        ELSE "get"

(***************************************************************************)
(* fileUtils.ts: getUniqueFileName and getActionFromRoute                  *)
(***************************************************************************)
IsAlnum(c) == includes(UpperCase, c) \/ includes(LowerCase, c) \/ includes(Digits, c)

\* .replace(/[^a-zA-Z0-9]/g, "-")
RECURSIVE dashNonAlnum(_)
dashNonAlnum(s) ==
    IF Len(s) = 0 THEN ""
    ELSE (IF IsAlnum(At(s, 1)) THEN At(s, 1) ELSE "-") \o dashNonAlnum(SubSeq(s, 2, Len(s)))

\* .replace(/-+/g, "-")
RECURSIVE collapseDashes(_)
collapseDashes(s) ==
    IF Len(s) < 2 THEN s
    ELSE IF At(s, 1) = "-" /\ At(s, 2) = "-" THEN collapseDashes(SubSeq(s, 2, Len(s)))
    ELSE At(s, 1) \o collapseDashes(SubSeq(s, 2, Len(s)))

\* .replace(/^-|-$/g, ""): one dash at the start and one at the end
trimDash_none(s) == s

trimDash(s) ==
    LET t == IF startsWith(s, "-") THEN SubSeq(s, 2, Len(s)) ELSE s
    IN  IF endsWith(t, "-") THEN SubSeq(t, 1, Len(t) - 1) ELSE t

\* String.prototype.replace(/\.action/g, "-action")
RECURSIVE dashAction(_)
dashAction(s) ==
    LET i == indexOf(s, ".action")
    IN  IF i = 0 THEN s
        ELSE SubSeq(s, 1, i - 1) \o "-action" \o dashAction(SubSeq(s, i + 7, Len(s)))

\* Array.prototype.filter((p) => p && p !== ":id" && p !== "api")
RECURSIVE meaningful(_)
meaningful(parts) ==
    IF Len(parts) = 0 THEN <<>>
    ELSE (IF parts[1] # "" /\ parts[1] # ":id" /\ parts[1] # "api" THEN <<parts[1]>> ELSE <<>>)
         \o meaningful(Tail(parts))

IsId(part) == part = ":id" \/ part = "[id]"

\* the CRUD patterns of the api block left out: the last part names the action
getActionFromRoute_lastPart(routePath, method) ==
    LET parts == split(stripTrailingSlashes(stripLeadingSlashes(routePath)), "/")
    IN  IF last(parts) # "" /\ last(parts) # ":id" THEN dashNonAlnum(last(parts))
        ELSE IF Len(meaningful(parts)) > 0 THEN last(meaningful(parts))
        ELSE "route"

getActionFromRoute(routePath, method) ==
    LET parts    == split(stripTrailingSlashes(stripLeadingSlashes(routePath)), "/")
        resource == parts[2]
        lastPart == last(parts)
    IN  IF Len(parts) >= 2 /\ parts[1] = "api" /\ method = "get" /\ Len(parts) = 2
        THEN "all-" \o resource
        ELSE IF Len(parts) >= 2 /\ parts[1] = "api" /\ method = "get" /\ Len(parts) = 3
                /\ IsId(parts[3])
        THEN resource \o "-by-id"
        ELSE IF Len(parts) >= 2 /\ parts[1] = "api" /\ method = "post" /\ Len(parts) = 2
        THEN "create-" \o resource
        ELSE IF Len(parts) >= 2 /\ parts[1] = "api" /\ method = "put" /\ Len(parts) = 3
                /\ IsId(parts[3])
        THEN "update-" \o resource
        ELSE IF Len(parts) >= 2 /\ parts[1] = "api" /\ method = "delete" /\ Len(parts) = 3
                /\ IsId(parts[3])
        THEN "delete-" \o resource
        ELSE IF Len(parts) >= 3 /\ parts[1] = "api"
        THEN parts[3] \o "-" \o resource
        ELSE IF includes(routePath, "auth") \/ includes(routePath, "login")
        THEN "auth"
        ELSE IF includes(routePath, "register")
        THEN "register"
        ELSE IF lastPart # "" /\ lastPart # ":id"
        THEN dashNonAlnum(lastPart)
        ELSE IF Len(meaningful(parts)) > 0 THEN last(meaningful(parts))
        ELSE "route"

getUniqueFileName(file, category) ==
    LET baseName          == removeExtension(file.fileName)
        processedBaseName == dashAction(baseName)
        routePath         == getRouteFromPath(file.relativePath)
        httpMethod        == getHttpMethodFromFile(file)
    IN  IF category = "api"
        THEN (IF routePath # "" /\ httpMethod # ""
              THEN httpMethod \o "-" \o getActionFromRoute(routePath, httpMethod) \o ".md"
              ELSE processedBaseName \o "-api.md")
        ELSE IF category = "pages"
        THEN (IF routePath # ""
              THEN trimDash(collapseDashes(dashNonAlnum(routePath))) \o "-page.md"
              ELSE processedBaseName \o "-page.md")
        ELSE IF category = "components"
        THEN processedBaseName \o "-component.md"
        ELSE IF category = "lib"
        THEN processedBaseName \o "-utility.md"
        ELSE processedBaseName \o ".md"

(***************************************************************************)
(* The runs considered                                                     *)
(***************************************************************************)
MaxFiles == 2

MaxUnreadable == 1

\* process.cwd() and path.sep: POSIX hosts and a Windows host
Hosts ==
    { [cwd |-> "/p", sep |-> "/"],
      [cwd |-> "/", sep |-> "/"],
      [cwd |-> "C:\\p", sep |-> "\\"] }

Disk ==
    { <<"src", "components", "Button.tsx">>,
      <<"app", "api", "users", "route.ts">>,
      <<"app", "(auth)", "node_modules", "x.js">>,
      <<"node_modules", "x.js">>,
      <<"src", "node_modules", "x.js">>,
      <<"build", "x.ts">>,
      <<"src", "build", "x.ts">>,
      <<"buildtools", "file.ts">>,
      <<"a\\b.ts">>,
      <<"Makefile">> }

GitignoreFiles ==
    { [state |-> "absent", content |-> ""],
      [state |-> "unreadable", content |-> ""],
      [state |-> "readable", content |-> "# build output\nbuild/\n"],
      [state |-> "readable", content |-> "(auth)/\r\n\r\n/Makefile\n"] }

\* a name holding a backslash exists only where the backslash is no separator
Storable(f, s) == \A k \in 1..Len(f) : ~includes(f[k], s)

Init ==
    /\ pc = "readCodebase"
    /\ \E h \in Hosts : cwd = h.cwd /\ sep = h.sep
    /\ tree \in {t \in SUBSET Disk : Cardinality(t) <= MaxFiles /\ \A f \in t : Storable(f, sep)}
    /\ unreadable \in {u \in SUBSET (Dirs(tree) \cup tree) : Cardinality(u) <= MaxUnreadable}
    /\ gitignore \in GitignoreFiles
    /\ allIgnoredPatterns = <<>>
    /\ stack = <<>>
    /\ files = <<>>
    /\ visited = {}
    /\ fileInfos = <<>>
    /\ idx = 1
    /\ arg = Null
    /\ ret = Null
    /\ NoDocs

Next ==
    \/ GitignoreAbsent
    \/ GitignoreUnreadable
    \/ GitignoreRead
    \/ ReaddirOk
    \/ ReaddirFail
    \/ EntryDirTraverse
    \/ EntryDirIgnored
    \/ EntryFileKept
    \/ EntryFileIgnored
    \/ TraverseReturn
    \/ CategorizeFile
    \/ CategorizeReadFails
    \/ CategorizeReturn

Spec == Init /\ [][Next]_vars

(***************************************************************************)
(* Single calls of shouldIgnore: the host, the pattern list and the path   *)
(* traverse passes are drawn from bounded sets                             *)
(***************************************************************************)
MaxDepth == 3

IgnoreHosts == Hosts \cup { [cwd |-> "/(g)", sep |-> "/"] }

IgnoreNames == {"b", "(g)", "(auth)", "src", "build", "buildtools", "dist", "file.ts"}

\* custom patterns: ignoredFolders entries given by a caller, or .gitignore lines
PatternPool == {"build/", "build", "b/", "(auth)/", "file.ts", "src/build", "src/build/"}

NamePaths(names, n) == UNION {[1..k -> names] : k \in 1..n}

Idle ==
    /\ tree = {}
    /\ unreadable = {}
    /\ gitignore = [state |-> "absent", content |-> ""]
    /\ stack = <<>>
    /\ files = <<>>
    /\ visited = {}
    /\ fileInfos = <<>>
    /\ idx = 1
    /\ ret = Null
    /\ NoDocs

InitIgnore ==
    /\ pc = "shouldIgnore"
    /\ \E h \in IgnoreHosts : cwd = h.cwd /\ sep = h.sep
    /\ allIgnoredPatterns \in {ignoredFolders} \cup {<<q>> \o ignoredFolders : q \in PatternPool}
    /\ \E node \in NamePaths(IgnoreNames, MaxDepth) :
           \* traverse reaches the node: none of the directories above it is ignored
           /\ \A k \in 1..(Len(node) - 1) :
                  ~shouldIgnore(relativeOf(fullPathOf(SubSeq(node, 1, k), cwd, sep), cwd),
                                cwd, allIgnoredPatterns)
           /\ arg = [path |-> relativeOf(fullPathOf(node, cwd, sep), cwd)]
    /\ Idle

CallShouldIgnore ==
    /\ pc = "shouldIgnore"
    /\ ret' = [value |-> shouldIgnore(arg.path, cwd, allIgnoredPatterns)]
    /\ pc' = "returned"
    /\ UNCHANGED <<env, walk, cat, arg, docs>>

NextIgnore == CallShouldIgnore

SpecIgnore == InitIgnore /\ [][NextIgnore]_vars

\* the matching rule as the specification states it, on the pattern as given
StatedMatch(p, q) ==
    IF endsWith(q, "/")
    THEN p = SubSeq(q, 1, Len(q) - 1) \/ startsWith(p, q)
    ELSE p = q \/ endsWith(p, "/" \o q)

\* C5 (as claimed): for a relative path without parentheses, shouldIgnore is
\* true exactly when some pattern matches it by the stated rule.
C5_IgnoreIffStatedMatch ==
    (pc = "returned" /\ ~includes(arg.path, "(") /\ ~includes(arg.path, ")")) =>
        (ret.value <=> \E i \in 1..Len(allIgnoredPatterns) :
                           StatedMatch(arg.path, allIgnoredPatterns[i]))

HasGroupSegment(p) ==
    \E i \in 1..Len(split(p, "/")) :
        LET part == split(p, "/")[i]
        IN  Len(part) > 2 /\ startsWith(part, "(") /\ endsWith(part, ")")

\* C7 (as claimed): a path with a parenthesized segment is never ignored,
\* whatever the patterns.
C7_GroupPathNeverIgnored ==
    (pc = "returned" /\ HasGroupSegment(arg.path)) => ~ret.value

(***************************************************************************)
(* Single calls of determineCategory on bounded relative paths             *)
(***************************************************************************)
MaxDirs == 2

CategoryDirs == {"components", "Components", "component", "api", "routes", "lib",
                 "utils", "app", "pages", "src"}

CategoryFiles == {"page.tsx", "Page.tsx", "page.jsx", "Button.tsx", "route.ts",
                  "layout.tsx", "package.json", "vite.config.ts"}

InitCategory ==
    /\ pc = "determineCategory"
    /\ cwd = "/p" /\ sep = "/"
    /\ allIgnoredPatterns = <<>>
    /\ \E dirs \in {<<>>} \cup NamePaths(CategoryDirs, MaxDirs) : \E name \in CategoryFiles :
           arg = [relativePath |-> join(Append(dirs, name), "/"),
                  content      |-> "",
                  extension    |-> toLowerCase(last(split(name, ".")))]
    /\ Idle

CallDetermineCategory ==
    /\ pc = "determineCategory"
    /\ ret' = [value |-> determineCategory(arg.relativePath, arg.content, arg.extension)]
    /\ pc' = "returned"
    /\ UNCHANGED <<env, walk, cat, arg, docs>>

NextCategory == CallDetermineCategory

SpecCategory == InitCategory /\ [][NextCategory]_vars

\* the directory segments of a relative path, lower-cased
DirSegments(rp) ==
    LET parts == split(toLowerCase(rp), "/")
    IN  SubSeq(parts, 1, Len(parts) - 1)

HasDir(rp, names) ==
    LET dirs == DirSegments(rp) IN \E i \in 1..Len(dirs) : dirs[i] \in names

\* a directory segment below the first one
HasInnerDir(rp, names) ==
    LET dirs == DirSegments(rp) IN \E i \in 2..Len(dirs) : dirs[i] \in names

PageEntry(rp) == last(split(rp, "/")) \in {"page.tsx", "page.js", "page.ts", "page.jsx"}

ComponentsRule(rp) == HasDir(rp, {"components"}) \/ HasInnerDir(rp, {"component"})

ApiRule(rp) == HasDir(rp, {"api"}) \/ HasInnerDir(rp, {"routes"})

LibRule(rp) == HasDir(rp, {"lib", "utils", "helpers"})

C3_RoutingDirectoryIsPages ==
    ( /\ pc = "returned"
      /\ ~PageEntry(arg.relativePath)
      /\ ~ComponentsRule(arg.relativePath)
      /\ ~ApiRule(arg.relativePath)
      /\ ~LibRule(arg.relativePath)
      /\ HasDir(arg.relativePath, {"pages", "app"}) ) => ret.value = "pages"

(***************************************************************************)
(* getUniqueFileName applied to each record of a bounded list              *)
(***************************************************************************)
MaxRecords == 2

Sources ==
    { [relativePath |-> "src/components/Button.tsx",      content |-> "export default function Button() {}"],
      [relativePath |-> "src/components/ui/Button.tsx",   content |-> "export default function Button() {}"],
      [relativePath |-> "src/components/Card.tsx",        content |-> "export default function Card() {}"],
      [relativePath |-> "app/page.tsx",                   content |-> "export default function Home() {}"],
      [relativePath |-> "app/(auth)/login/page.tsx",      content |-> "export default function Login() {}"],
      [relativePath |-> "app/blog/[...slug]/page.tsx",    content |-> "export default function Post() {}"],
      [relativePath |-> "app/api/users/route.ts",         content |-> "export async function GET(req) {}"],
      [relativePath |-> "app/api/users/route.ts",         content |-> "export async function POST(req) {}"],
      [relativePath |-> "app/api/users/[id]/route.ts",    content |-> "export async function GET(req) {}"],
      [relativePath |-> "src/app/api/users/route.ts",     content |-> "export function getUsers() {}"],
      [relativePath |-> "api/users.ts",                   content |-> "module.exports = {}"],
      [relativePath |-> "api/users/[id].ts",              content |-> "export  async\tfunction DELETE() {}"],
      [relativePath |-> "src/lib/utils.ts",               content |-> "export const x = 1"],
      [relativePath |-> "src/lib/auth.action.ts",         content |-> "export const y = 2"] }

RecordOf(src) == FileInfo("/p/" \o src.relativePath, src.content, "/p")

InitNames ==
    /\ pc = "getUniqueFileName"
    /\ cwd = "/p" /\ sep = "/"
    /\ allIgnoredPatterns = <<>>
    /\ \E n \in 1..MaxRecords : \E srcs \in [1..n -> Sources] :
           arg = [k \in 1..n |-> RecordOf(srcs[k])]
    /\ tree = {}
    /\ unreadable = {}
    /\ gitignore = [state |-> "absent", content |-> ""]
    /\ stack = <<>>
    /\ files = <<>>
    /\ visited = {}
    /\ fileInfos = <<>>
    /\ idx = 1
    /\ ret = <<>>
    /\ NoDocs

\* the name of the next record of the list
CallGetUniqueFileName ==
    /\ pc = "getUniqueFileName"
    /\ Len(ret) < Len(arg)
    /\ ret' = Append(ret, getUniqueFileName(arg[Len(ret) + 1], arg[Len(ret) + 1].category))
    /\ UNCHANGED <<pc, env, walk, cat, arg, docs>>

NamesReturn ==
    /\ pc = "getUniqueFileName"
    /\ Len(ret) = Len(arg)
    /\ pc' = "returned"
    /\ UNCHANGED <<env, walk, cat, call, docs>>

NextNames == CallGetUniqueFileName \/ NamesReturn

SpecNames == InitNames /\ [][NextNames]_vars

\* C1 (as claimed): two distinct records of one category never get the same
\* output name.
C1_NamesUniqueInCategory ==
    pc = "returned" =>
        \A i \in 1..Len(arg) : \A j \in 1..Len(arg) :
            ( /\ arg[i].relativePath # arg[j].relativePath
              /\ arg[i].category = arg[j].category ) => ret[i] # ret[j]

(***************************************************************************)
(* Properties of the walk                                                  *)
(***************************************************************************)
WalkDone == pc \notin {"readCodebase", "traverse"}

\* the decision traverse takes for a node: shouldIgnore on its relative path
Ignored(node) ==
    shouldIgnore(relativeOf(fullPathOf(node, cwd, sep), cwd), cwd, allIgnoredPatterns)

Returned(f) == \E i \in 1..Len(files) : files[i] = fullPathOf(f, cwd, sep)

Parent(node) == SubSeq(node, 1, Len(node) - 1)

Ancestors(f) == {SubSeq(f, 1, k) : k \in 0..(Len(f) - 1)}

Position(name) == CHOOSE k \in 1..Len(DirOrder) : DirOrder[k] = name

WellFormed(rp) == ~startsWith(rp, "/") /\ ~startsWith(rp, "\\") /\ ~includes(rp, "\\")

\* C4: every relative path computed by traverse and by categorizeFiles, on a
\* POSIX or a Windows host, starts with no separator and holds no backslash.
C4_RelativePathNormalized ==
    /\ \A k \in 1..Len(stack) : WellFormed(stack[k].relativePath)
    /\ \A k \in 1..Len(fileInfos) : WellFormed(fileInfos[k].relativePath)

\* C4 witness: a record was built from an absolute path that holds backslashes
C4_Witness ==
    \E k \in 1..Len(fileInfos) :
        /\ includes(fileInfos[k].path, "\\")
        /\ includes(fileInfos[k].relativePath, "/")

\* what the walk decided and produced, computed once per state
IgnoredNodes == {n \in (Dirs(tree) \cup tree) \ {<<>>} : Ignored(n)}

ReturnedNodes == {f \in tree : Returned(f)}

\* C8: an ignored directory is never read and nothing below it is returned; an
\* ignored file is left out while its non-ignored siblings are all returned.
C8_IgnoredSubtreeSkipped ==
    WalkDone =>
        LET ign == IgnoredNodes
            got == ReturnedNodes
        IN  /\ \A d \in ign \cap Dirs(tree) :
                   /\ d \notin visited
                   /\ \A f \in got : ~IsPrefix(d, f)
            /\ \A f \in ign \cap tree : f \notin got
            /\ \A f \in ign \cap tree : \A g \in tree \ ign :
                   (Parent(f) = Parent(g) /\ Parent(g) \in visited \ unreadable)
                       => g \in got

\* C8 witness: an ignored file is listed before a sibling that was returned
C8_Witness ==
    /\ WalkDone
    /\ \E f \in tree : \E g \in tree :
           /\ Parent(f) = Parent(g)
           /\ Position(last(f)) < Position(last(g))
           /\ Returned(g)
           /\ Ignored(f)

\* C8, the directory case is reached as well: an ignored directory holding a
\* file, met by the walk
C8_WitnessDirectory ==
    /\ WalkDone
    /\ \E d \in Dirs(tree) \ {<<>>} : Parent(d) \in visited \ unreadable /\ Ignored(d)

\* C9 (as claimed): no returned file lies under a directory named node_modules,
\* dist, .next or .git, at any depth.
C9_DefaultFoldersExcluded ==
    \A i \in 1..Len(files) :
        \A k \in 1..(Len(nodeOf(files[i])) - 1) :
            nodeOf(files[i])[k] \notin {"node_modules", "dist", ".next", ".git"}

\* C10: a failing readdir never stops the walk: at its end every non-ignored
\* file reachable through readable, non-ignored directories is returned, also
\* below the siblings listed after the failing directory; an unreadable
\* .gitignore adds no pattern.
C10_WalkSurvivesReadErrors ==
    /\ pc \in {"readCodebase", "traverse", "categorizeFiles", "generateDocs"}
    /\ pc = "traverse" => Len(stack) > 0
    /\ (pc # "readCodebase" /\ gitignore.state = "unreadable") =>
           allIgnoredPatterns = ignoredFolders
    /\ WalkDone =>
           LET ign == IgnoredNodes
               got == ReturnedNodes
           IN  \A f \in tree \ ign :
                   (\A d \in Ancestors(f) : d \notin unreadable /\ d \notin ign)
                       => f \in got

\* C10 witness: readdir failed on a directory and a file below a sibling listed
\* after it was returned
C10_Witness ==
    /\ WalkDone
    /\ \E d \in (unreadable \cap visited) \ {<<>>} : \E f \in tree :
           /\ IsPrefix(Parent(d), f)
           /\ Position(last(d)) < Position(f[Len(d)])
           /\ Returned(f)

\* the lines of .gitignore that readCodebase keeps, before the slashes are stripped
GitignoreLines ==
    IF gitignore.state # "readable" THEN <<>>
    ELSE filterNonComment([i \in 1..Len(split(gitignore.content, "\n")) |->
                               trim(split(gitignore.content, "\n")[i])])

DirectoryLines == {GitignoreLines[i] : i \in {j \in 1..Len(GitignoreLines) : endsWith(GitignoreLines[j], "/")}}

\* the root-relative directory a line ending in "/" names
LineDir(l) == stripLeadingSlashes(SubSeq(l, 1, Len(l) - 1))

UnderLine(f, l) ==
    LET rp == join(f, "/")
    IN  rp = LineDir(l) \/ startsWith(rp, LineDir(l) \o "/")

\* C6 (as claimed): a line ending in "/" excludes the root-relative directory it
\* names with everything below it, and no same-named entry deeper in the tree.
C6_DirectoryLineAnchored ==
    WalkDone =>
        \A f \in tree :
            /\ (\E l \in DirectoryLines : UnderLine(f, l)) => ~Returned(f)
            /\ ( /\ DirectoryLines # {}
                 /\ \A i \in 1..Len(GitignoreLines) : GitignoreLines[i] \in DirectoryLines
                 /\ ~\E l \in DirectoryLines : UnderLine(f, l)
                 /\ \A k \in 1..Len(f) : f[k] \notin {"node_modules", "dist", ".next", ".git"}
                 /\ \A d \in Ancestors(f) : d \notin unreadable ) => Returned(f)

(***************************************************************************)
(* categorizeFiles: its result                                             *)
(***************************************************************************)
Readable(filePath) == nodeOf(filePath) \notin unreadable

\* the paths of a list whose content can be read, in the list's order
RECURSIVE ReadablePaths(_)
ReadablePaths(paths) ==
    IF Len(paths) = 0 THEN <<>>
    ELSE (IF Readable(paths[1]) THEN <<paths[1]>> ELSE <<>>) \o ReadablePaths(Tail(paths))

Complete(r, filePath) ==
    /\ DOMAIN r = {"path", "content", "category", "relativePath", "fileName", "extension"}
    /\ r.path = filePath
    /\ r.content = ContentOf(nodeOf(filePath))
    /\ r.relativePath # "" /\ r.fileName # ""
    /\ r.category \in Categories

\* C11: categorizeFiles never fails as a whole; the records built so far are
\* exactly one complete record per readable path handled so far, in input
\* order, and none for a path whose read failed.
C11_OneRecordPerReadablePath ==
    /\ pc # "failed"
    /\ pc \in {"categorizeFiles", "generateDocs"} =>
         LET handled == IF pc = "generateDocs" THEN files ELSE SubSeq(files, 1, idx - 1)
             kept    == ReadablePaths(handled)
         IN  /\ Len(fileInfos) = Len(kept)
             /\ \A k \in 1..Len(kept) : Complete(fileInfos[k], kept[k])

\* the read of the first path failed and the second path still has its record
C11_Witness ==
    /\ pc = "generateDocs"
    /\ Len(files) = 2
    /\ ~Readable(files[1])
    /\ Len(fileInfos) = 1
    /\ fileInfos[1].path = files[2]

\* the extension as stated: the lowercase text after the last dot, "" without one
StatedExtension(fileName) ==
    IF includes(fileName, ".") THEN toLowerCase(last(split(fileName, "."))) ELSE ""

\* C12 (as claimed): every record's extension is the lowercase text after the
\* last dot of its file name, and "" when the file name has no dot.
C12_ExtensionAfterLastDot ==
    \A k \in 1..Len(fileInfos) :
        fileInfos[k].extension = StatedExtension(fileInfos[k].fileName)

(***************************************************************************)
(* Single calls of getRouteFromPath on bounded relative paths              *)
(***************************************************************************)
MaxSegments == 3

RouteNames == {"", "app", "api", "users", "[id]", "[id].ts", "[...slug]", "[...slug].ts",
               "(auth)", "content", "docs", "temp-zen-docs-1", "route.ts", ".github", "a\\b",
               "v1.2"}

InitRoute ==
    /\ pc = "getRouteFromPath"
    /\ cwd = "/p" /\ sep = "/"
    /\ allIgnoredPatterns = <<>>
    /\ \E segs \in NamePaths(RouteNames, MaxSegments) : arg = [relativePath |-> join(segs, "/")]
    /\ Idle

CallGetRouteFromPath ==
    /\ pc = "getRouteFromPath"
    /\ ret' = [value |-> getRouteFromPath(arg.relativePath)]
    /\ pc' = "returned"
    /\ UNCHANGED <<env, walk, cat, arg, docs>>

NextRoute == CallGetRouteFromPath

SpecRoute == InitRoute /\ [][NextRoute]_vars

\* the input segments, both separators counted
InputSegments(rp) == split(slashes(rp), "/")

\* the segments the stated rule drops
StatedDropped(part) ==
    \/ part = ""
    \/ startsWith(part, "temp-zen-docs-")
    \/ part = "content" \/ part = "docs"
    \/ (startsWith(part, "(") /\ endsWith(part, ")"))

RECURSIVE StatedKept(_)
StatedKept(parts) ==
    IF Len(parts) = 0 THEN <<>>
    ELSE (IF StatedDropped(parts[1]) THEN <<>> ELSE <<parts[1]>>) \o StatedKept(Tail(parts))

\* the segments of a route, the leading slash taken off
RouteSegments(route) == split(SubSeq(route, 2, Len(route)), "/")

IsCatchAll(part) == startsWith(part, "[...") /\ endsWith(part, "]") /\ Len(part) > 5

\* C13 (as claimed): a catch-all segment [...name] is rendered *name, and no
\* segment of a route is rendered :...name.
C13_CatchAllRendered ==
    pc = "returned" =>
        LET kept == StatedKept(InputSegments(arg.relativePath))
            out  == RouteSegments(ret.value)
        IN  /\ \A k \in 1..Len(kept) :
                   IsCatchAll(kept[k]) =>
                       k <= Len(out) /\ out[k] = "*" \o SubSeq(kept[k], 5, Len(kept[k]) - 1)
            /\ \A k \in 1..Len(out) : ~startsWith(out[k], ":...")

\* a plain dynamic segment [x]: x of letters and digits only
IsPlainDynamic(part) ==
    /\ Len(part) > 2 /\ startsWith(part, "[") /\ endsWith(part, "]")
    /\ \A i \in 2..(Len(part) - 1) : IsAlnum(At(part, i))

IsPlainName(part) == Len(part) > 0 /\ \A i \in 1..Len(part) : IsAlnum(At(part, i))

\* C14 (as claimed): the route is "/" followed by the transforms of the kept
\* segments in order, joined by "/"; it starts with exactly one "/", a segment
\* [x] is rendered :x, a plain name stays as it is, and the route is "/" when
\* every segment is dropped.
C14_RouteOfKeptSegments ==
    pc = "returned" =>
        LET kept == StatedKept(InputSegments(arg.relativePath))
            out  == RouteSegments(ret.value)
        IN  /\ startsWith(ret.value, "/") /\ ~startsWith(ret.value, "//")
            /\ Len(kept) = 0 => ret.value = "/"
            /\ Len(kept) > 0 =>
                 /\ Len(out) = Len(kept)
                 /\ \A k \in 1..Len(kept) :
                        /\ IsPlainDynamic(kept[k]) =>
                               out[k] = ":" \o SubSeq(kept[k], 2, Len(kept[k]) - 1)
                        /\ IsPlainName(kept[k]) => out[k] = kept[k]

(***************************************************************************)
(* Single calls of getHttpMethodFromFile on bounded files                  *)
(***************************************************************************)
MethodNames == {"route.ts", "Route.TS", "route.js", "route.tsx", "users.ts", "get.ts",
                "users.post.ts", "delete.put.ts", "PATCH.js", "widget.ts", "index",
                "output.ts"}

MethodContents ==
    { "",
      "export async function POST(req) {}",
      "export function GET() {}",
      "export  async\tfunction DELETE() {}",
      "export async function\nPut(req) {}",
      "export function getUsers() {}",
      "export function postProcess() {}",
      "export async function deleteUser() {}",
      "export const PUT = 1",
      "export default async function handler() {}",
      "function PATCH() {}\nexport async function patch() {}",
      "export function async() {}\nexport async function PATCH() {}" }

InitMethod ==
    /\ pc = "getHttpMethodFromFile"
    /\ cwd = "/p" /\ sep = "/"
    /\ allIgnoredPatterns = <<>>
    /\ \E name \in MethodNames : \E content \in MethodContents :
           arg = [fileName |-> name, content |-> content]
    /\ Idle

CallGetHttpMethodFromFile ==
    /\ pc = "getHttpMethodFromFile"
    /\ ret' = [value |-> getHttpMethodFromFile(arg)]
    /\ pc' = "returned"
    /\ UNCHANGED <<env, walk, cat, arg, docs>>

NextMethod == CallGetHttpMethodFromFile

SpecMethod == InitMethod /\ [][NextMethod]_vars

IsRouteFile(fileName) == toLowerCase(fileName) \in {"route.ts", "route.js"}

\* the verbs a file name holds followed by a dot, in the order they are tried
NameVerbs(fileName) ==
    SelectSeq(HttpVerbs, LAMBDA v : includes(toLowerCase(fileName), v \o "."))

MaxNameDirs == 3

NameDirs == {"app", "api", "users", "[id]", "[userId]", "(auth)", "lib"}

NameFiles == {"route.ts", "page.tsx", "users.ts", "[id].ts", "Button.tsx"}

NameContents ==
    { "export default function View() {}",
      "export async function GET(req) {}",
      "export async function POST(req) {}",
      "export async function PUT(req) {}",
      "export async function DELETE(req) {}" }

InitOutputName ==
    /\ pc = "getUniqueFileName"
    /\ cwd = "/p" /\ sep = "/"
    /\ allIgnoredPatterns = <<>>
    /\ \E dirs \in {<<>>} \cup NamePaths(NameDirs, MaxNameDirs) :
       \E name \in NameFiles : \E content \in NameContents :
           arg = RecordOf([relativePath |-> join(Append(dirs, name), "/"), content |-> content])
    /\ Idle

CallOutputName ==
    /\ pc = "getUniqueFileName"
    /\ ret' = [value |-> getUniqueFileName(arg, arg.category)]
    /\ pc' = "returned"
    /\ UNCHANGED <<env, walk, cat, arg, docs>>

NextOutputName == CallOutputName

SpecOutputName == InitOutputName /\ [][NextOutputName]_vars

\* the name the stated table gives a method and the segments of a route
\* /api/<r> or /api/<r>/:id; "" where the table has no row
StatedApiName(method, segs) ==
    IF method = "get" /\ Len(segs) = 2 THEN "get-all-" \o segs[2]
    ELSE IF method = "get" /\ Len(segs) = 3 THEN "get-" \o segs[2] \o "-by-id"
    ELSE IF method = "post" /\ Len(segs) = 2 THEN "post-create-" \o segs[2]
    ELSE IF method = "put" /\ Len(segs) = 3 THEN "put-update-" \o segs[2]
    ELSE IF method = "delete" /\ Len(segs) = 3 THEN "delete-delete-" \o segs[2]
    ELSE ""

IsResourceRoute(segs) ==
    /\ Len(segs) \in {2, 3}
    /\ segs[1] = "api"
    /\ Len(segs) = 3 => segs[3] = ":id"

C17_AppRouterHandlerNames ==
    (pc = "returned" /\ getHttpMethodFromFile(arg) = "get") =>
        /\ arg.relativePath = "app/api/users/route.ts" => ret.value = "get-all-users.md"
        /\ arg.relativePath = "app/api/users/[id]/route.ts" => ret.value = "get-users-by-id.md"

\* every non-alphanumeric run becomes one "-"
RECURSIVE RunsToDash(_)
RunsToDash(s) ==
    IF Len(s) = 0 THEN ""
    ELSE IF IsAlnum(At(s, 1)) THEN At(s, 1) \o RunsToDash(SubSeq(s, 2, Len(s)))
    ELSE IF Len(s) > 1 /\ ~IsAlnum(At(s, 2)) THEN RunsToDash(SubSeq(s, 2, Len(s)))
    ELSE "-" \o RunsToDash(SubSeq(s, 2, Len(s)))

\* the stated sanitizing of a route: runs to "-", then no "-" at either end
StatedSanitized(route) ==
    LET d == RunsToDash(route)
        a == IF startsWith(d, "-") THEN SubSeq(d, 2, Len(d)) ELSE d
    IN  IF endsWith(a, "-") THEN SubSeq(a, 1, Len(a) - 1) ELSE a

IsCleanSlug(s) ==
    /\ \A i \in 1..Len(s) : IsAlnum(At(s, i)) \/ At(s, i) = "-"
    /\ ~startsWith(s, "-") /\ ~endsWith(s, "-") /\ ~includes(s, "--")

\* C18: a pages file is named <sanitized route>-page, the sanitized route being
\* letters, digits and single "-" separators with no "-" at either end.
C18_PageNameSanitized ==
    (pc = "returned" /\ arg.category = "pages") =>
        LET clean == StatedSanitized(getRouteFromPath(arg.relativePath))
        IN  /\ ret.value = clean \o "-page.md"
            /\ IsCleanSlug(clean)

\* a page below a route group and a dynamic segment has been named
C18_Witness ==
    /\ pc = "returned"
    /\ arg.relativePath = "app/(auth)/[id]/page.tsx"
    /\ ret.value = "app-id-page-page.md"

UnsafeChars == {"/", "\\", ":", "*", "?", "\"", "<", ">", "|"}

IsSafeName(s) == \A i \in 1..Len(s) : At(s, i) \notin UnsafeChars

\* C19 (as claimed): the name of a components, pages, api or lib file whose own
\* file name is filesystem-safe holds none of / \ : * ? " < > |.
C19_NameFilesystemSafe ==
    ( /\ pc = "returned"
      /\ arg.category \in {"components", "pages", "api", "lib"}
      /\ IsSafeName(arg.fileName) ) => IsSafeName(ret.value)

(***************************************************************************)
(* generateDocs: grouping, the documents written and the sidebar           *)
(***************************************************************************)
MaxSidebarFiles == 2

RelevantCategories == {"components", "pages", "api", "lib"}

SidebarSources ==
    { [relativePath |-> "src/components/Button.tsx",    content |-> "export default function Button() {}"],
      [relativePath |-> "src/components/ui/Button.tsx", content |-> "export default function Button() {}"],
      [relativePath |-> "app/page.tsx",                 content |-> "export default function Home() {}"],
      [relativePath |-> "app/api/users/route.ts",       content |-> "export async function GET(req) {}"],
      [relativePath |-> "src/lib/utils.ts",             content |-> "export const x = 1"],
      [relativePath |-> "package.json",                 content |-> "{}"] }

\* the record categorizeFiles builds for a source on the host
HostRecord(src) ==
    FileInfo(cwd \o sep \o join(split(src.relativePath, "/"), sep), src.content, cwd)

\* fileInfos.filter((file) => relevantCategories.includes(file.category))
filteredFileInfos(infos) == SelectSeq(infos, LAMBDA f : f.category \in RelevantCategories)

\* one step of the loop of groupFilesByCategory: a new key goes last
addToGroup(g, fileInfo) ==
    LET at == {i \in 1..Len(g) : g[i].category = fileInfo.category}
    IN  IF at = {} THEN Append(g, [category |-> fileInfo.category, files |-> <<fileInfo>>])
        ELSE [i \in 1..Len(g) |->
                 IF i \in at THEN [g[i] EXCEPT !.files = Append(@, fileInfo)] ELSE g[i]]

RECURSIVE groupFilesByCategory(_)
groupFilesByCategory(infos) ==
    IF Len(infos) = 0 THEN <<>>
    ELSE addToGroup(groupFilesByCategory(SubSeq(infos, 1, Len(infos) - 1)), infos[Len(infos)])

filterEmptyCategories(g) == SelectSeq(g, LAMBDA e : Len(e.files) > 0)

\* the (category, file) pairs in the order the loops of generateDocs visit them
RECURSIVE Flat(_)
Flat(g) ==
    IF Len(g) = 0 THEN <<>>
    ELSE [k \in 1..Len(g[1].files) |-> [category |-> g[1].category, file |-> g[1].files[k]]]
         \o Flat(Tail(g))

getCategoryTitle(category) ==
    IF category = "components" THEN "Components"
    ELSE IF category = "pages" THEN "Pages"
    ELSE IF category = "api" THEN "API Routes"
    ELSE IF category = "lib" THEN "Libraries & Utilities"
    ELSE category

\* .replace(/\.md$/, "")
stripMd(name) == IF endsWith(name, ".md") THEN SubSeq(name, 1, Len(name) - 3) ELSE name

\* the slug built from the file's own base name
sidebarSlug_baseName(file, category) == category \o "/" \o removeExtension(file.fileName)

sidebarSlug(file, category) == category \o "/" \o stripMd(getUniqueFileName(file, category))

\* the label generateSidebarConfigWithAI falls back to when the request fails
fallbackLabel(file, category) ==
    IF category \in {"api", "pages"}
    THEN LET route == getRouteFromPath(file.relativePath)
             r1    == IF startsWith(route, "/app/") THEN SubSeq(route, 5, Len(route)) ELSE route
         IN  IF endsWith(r1, "/route") THEN SubSeq(r1, 1, Len(r1) - 6) ELSE r1
    ELSE removeExtension(file.fileName)

\* result.text.trim().replace(/^"|"$/g, "")
aiLabel(text) ==
    LET s == trim(text)
        a == IF startsWith(s, "\"") THEN SubSeq(s, 2, Len(s)) ELSE s
    IN  IF endsWith(a, "\"") THEN SubSeq(a, 1, Len(a) - 1) ELSE a

AiTexts == {" \"GET /api/users\"\n"}

InitSidebar ==
    /\ pc = "generateDocs"
    /\ \E h \in {x \in Hosts : x.cwd # "/"} : cwd = h.cwd /\ sep = h.sep
    /\ \E n \in 1..MaxSidebarFiles : \E srcs \in [1..n -> SidebarSources] :
           /\ \A i \in 1..n : \A j \in 1..n : i # j => srcs[i] # srcs[j]
           /\ fileInfos = [k \in 1..n |-> HostRecord(srcs[k])]
    /\ allIgnoredPatterns = <<>>
    /\ tree = {}
    /\ unreadable = {}
    /\ gitignore = [state |-> "absent", content |-> ""]
    /\ stack = <<>>
    /\ files = <<>>
    /\ visited = {}
    /\ idx = 1
    /\ arg = Null
    /\ ret = Null
    /\ NoDocs

GroupFiles ==
    /\ pc = "generateDocs"
    /\ grouped' = filterEmptyCategories(groupFilesByCategory(filteredFileInfos(fileInfos)))
    /\ idx' = 1
    /\ pc' = "writeDocs"
    /\ UNCHANGED <<env, walk, fileInfos, call, written, sidebar, errors, indexes,
                   translation, output, previous>>

\* join(categoryDir, fileName), below the documentation directory
docPath(category, file) == category \o sep \o getUniqueFileName(file, category)

\* addFrontmatter(body, file, category, config): the front matter block, then the body
addFrontmatter(body, file, category) ==
    [frontmatter |-> TRUE, of |-> file.relativePath, category |-> category, body |-> body]

\* a fallback that returns the structure document as it is
generateFileDoc_noFrontmatter(file, category, answer) ==
    IF answer = "text" THEN addFrontmatter("ai", file, category)
    ELSE [frontmatter |-> FALSE, of |-> file.relativePath, category |-> category,
          body |-> "structure"]

\* generateFileDoc: the text of the service, or the structure document when
\* generateText throws; front matter is added to either
generateFileDoc(file, category, answer) ==
    IF answer = "text" THEN addFrontmatter("ai", file, category)
    ELSE addFrontmatter("structure", file, category)

\* one pass of the inner loop with a writeFile that refuses a path that exists
WriteDoc_exclusive ==
    /\ pc = "writeDocs"
    /\ idx <= Len(Flat(grouped))
    /\ \E answer \in {"text", "throws"} :
        LET at == Flat(grouped)[idx]
            p  == docPath(at.category, at.file)
        IN  IF \E w \in 1..Len(written) : written[w].path = p
            THEN /\ written' = written
                 /\ errors' = Append(errors, [relativePath |-> at.file.relativePath,
                                              error |-> "EEXIST"])
            ELSE /\ written' = Append(written,
                        [relativePath |-> at.file.relativePath, path |-> p,
                         doc |-> generateFileDoc(at.file, at.category, answer)])
                 /\ errors' = errors
    /\ idx' = idx + 1
    /\ UNCHANGED <<pc, env, walk, fileInfos, call, grouped, sidebar, indexes,
                   translation, output, previous>>

\* one pass of the inner loop: the document is generated and written
WriteDoc ==
    /\ pc = "writeDocs"
    /\ idx <= Len(Flat(grouped))
    /\ \E answer \in {"text", "throws"} :
        LET at == Flat(grouped)[idx]
        IN  written' = Append(written,
                [relativePath |-> at.file.relativePath,
                 path |-> docPath(at.category, at.file),
                 doc |-> generateFileDoc(at.file, at.category, answer)])
    /\ idx' = idx + 1
    /\ UNCHANGED <<pc, env, walk, fileInfos, call, grouped, sidebar, errors, indexes,
                   translation, output, previous>>

\* one pass of the inner loop in which writeFile throws, after either document:
\* the catch reports the file and the loop goes on
WriteDocFails ==
    /\ pc = "writeDocs"
    /\ idx <= Len(Flat(grouped))
    /\ errors' = Append(errors, [relativePath |-> Flat(grouped)[idx].file.relativePath,
                                 error |-> "writeFile"])
    /\ idx' = idx + 1
    /\ UNCHANGED <<pc, env, walk, fileInfos, call, grouped, written, sidebar, indexes,
                   translation, output, previous>>

WriteDocsDone ==
    /\ pc = "writeDocs"
    /\ idx > Len(Flat(grouped))
    /\ pc' = "generateCategoryIndexes"
    /\ UNCHANGED <<env, walk, cat, call, docs>>

\* const fileName = file.fileName.replace(/\.[^/.]+$/, ""); filePath = `./${fileName}`
indexLink(file, category) == "./" \o removeExtension(file.fileName)

\* astroGenerator.ts: one index.md per category, with one link per file
GenerateCategoryIndexes ==
    /\ pc = "generateCategoryIndexes"
    /\ indexes' = [i \in 1..Len(grouped) |->
           [path  |-> grouped[i].category \o sep \o "index.md",
            category |-> grouped[i].category,
            links |-> [k \in 1..Len(grouped[i].files) |->
                          indexLink(grouped[i].files[k], grouped[i].category)]]]
    /\ pc' = "generateAstroConfig"
    /\ UNCHANGED <<env, walk, cat, call, grouped, written, sidebar, errors,
                   translation, output, previous>>

\* genConfig.ts
GenerateSidebarConfig ==
    /\ pc = "generateAstroConfig"
    /\ sidebar' = [i \in 1..Len(grouped) |->
           [label |-> getCategoryTitle(grouped[i].category),
            items |-> [k \in 1..Len(grouped[i].files) |->
                [label |-> removeExtension(grouped[i].files[k].fileName),
                 slug  |-> sidebarSlug(grouped[i].files[k], grouped[i].category)]]]]
    /\ pc' = "handleTranslations"
    /\ UNCHANGED <<env, walk, cat, call, grouped, written, errors, indexes,
                   translation, output, previous>>

\* astroGenerator.ts: each label comes from the text service or from the fallback
GenerateSidebarConfigWithAI ==
    /\ pc = "generateAstroConfig"
    /\ \E answered \in SUBSET {f.relativePath : f \in {fileInfos[k] : k \in 1..Len(fileInfos)}} :
       \E text \in AiTexts :
           sidebar' = [i \in 1..Len(grouped) |->
               [label |-> getCategoryTitle(grouped[i].category),
                items |-> [k \in 1..Len(grouped[i].files) |->
                    [label |-> IF grouped[i].files[k].relativePath \in answered
                               THEN aiLabel(text)
                               ELSE fallbackLabel(grouped[i].files[k], grouped[i].category),
                     slug  |-> sidebarSlug(grouped[i].files[k], grouped[i].category)]]]]
    /\ pc' = "handleTranslations"
    /\ UNCHANGED <<env, walk, cat, call, grouped, written, errors, indexes,
                   translation, output, previous>>

\* how a call of handleTranslations can end: the constructor of the translator
\* throws, the connection test, the creation of a language directory or the
\* translation of a file throws, or all of it succeeds
TranslationResults == {"constructor", "connection", "mkdir", "translate", "done"}

\* generateDocs.ts: the translation step. What throws inside the try of
\* handleTranslations is reported and dropped; what the constructor throws
\* leaves handleTranslations and generateDocs, and generate exits.
HandleTranslations ==
    /\ pc = "handleTranslations"
    /\ \E result \in (IF translation.useTranslation THEN TranslationResults ELSE {"skipped"}) :
           /\ translation' = [translation EXCEPT !.result = result]
           /\ pc' = IF result = "constructor" THEN "failed" ELSE "moveContentToAstroProject"
    /\ UNCHANGED <<env, walk, cat, call, grouped, written, sidebar, errors, indexes,
                   output, previous>>

outputDir == "docs"

\* the artifacts of the loop: the last document written at each path
Artifacts == {written[w].path : w \in 1..Len(written)}

\* the entries copied below <outputDir>/src/content/docs, and the configuration
Moved ==
    {<<outputDir, "src", "content", "docs">> \o split(p, sep) : p \in Artifacts}
    \cup {<<outputDir, "src", "content", "docs">> \o split(indexes[i].path, sep) :
              i \in 1..Len(indexes)}
    \cup {<<outputDir, "src", "content", "docs", "index.mdx">>,
          <<outputDir, "astro.config.mjs">>}

MoveContentToAstroProject ==
    /\ pc = "moveContentToAstroProject"
    /\ output' = Moved
    /\ pc' = "done"
    /\ UNCHANGED <<env, walk, cat, call, grouped, written, sidebar, errors, indexes,
                   translation, previous>>

NextSidebar ==
    \/ GroupFiles
    \/ WriteDoc
    \/ WriteDocFails
    \/ WriteDocsDone
    \/ GenerateCategoryIndexes
    \/ GenerateSidebarConfig
    \/ GenerateSidebarConfigWithAI
    \/ HandleTranslations
    \/ MoveContentToAstroProject

SpecSidebar == InitSidebar /\ [][NextSidebar]_vars

\* the records of one category, in input order
FilesOf(c) == SelectSeq(fileInfos, LAMBDA f : f.category = c)

NonEmptyCategories == {c \in RelevantCategories : Len(FilesOf(c)) > 0}

\* C20: the sidebar has one group per relevant category that has a file; a
\* group has one item per file of its category, in input order, with the slug
\* <category>/<output name without .md>; the document of a file is written at
\* exactly that path plus .md.
C20_SidebarMatchesDocuments ==
    pc = "done" =>
        /\ Len(sidebar) = Cardinality(NonEmptyCategories)
        /\ \A c \in NonEmptyCategories :
               \E g \in 1..Len(sidebar) :
                   /\ sidebar[g].label = getCategoryTitle(c)
                   /\ Len(sidebar[g].items) = Len(FilesOf(c))
                   /\ \A k \in 1..Len(FilesOf(c)) :
                          /\ sidebar[g].items[k].slug =
                                 c \o "/" \o stripMd(getUniqueFileName(FilesOf(c)[k], c))
                          /\ \A w \in 1..Len(written) :
                                 written[w].relativePath = FilesOf(c)[k].relativePath =>
                                     slashes(written[w].path) = sidebar[g].items[k].slug \o ".md"
        /\ \A w \in 1..Len(written) :
               \E c \in NonEmptyCategories : \E k \in 1..Len(FilesOf(c)) :
                   written[w].relativePath = FilesOf(c)[k].relativePath

\* two files of one category in one group, both documents written
C20_Witness ==
    /\ pc = "done"
    /\ Len(sidebar) = 1
    /\ Len(sidebar[1].items) = 2
    /\ Len(written) = 2

(***************************************************************************)
(* Two runs of the derivations over lists of records                       *)
(***************************************************************************)
MaxRunFiles == 2

RunSources ==
    { [relativePath |-> "src/components/Button.tsx",    content |-> "export default function Button() {}"],
      [relativePath |-> "src/components/ui/Button.tsx", content |-> "export default function Button() {}"],
      [relativePath |-> "app/blog/[id]/page.tsx",       content |-> "export default function Post() {}"],
      [relativePath |-> "api/users.ts",                 content |-> "export async function POST(req) {}"] }

\* the lists of distinct files a run may be given, in every order
RunLists ==
    {l \in NamePaths(RunSources, MaxRunFiles) : \A i, j \in 1..Len(l) : i # j => l[i] # l[j]}

\* what the pipeline derives for one record
derivedOf(file) ==
    [category   |-> determineCategory(file.relativePath, file.content, file.extension),
     route      |-> getRouteFromPath(file.relativePath),
     httpMethod |-> getHttpMethodFromFile(file),
     name       |-> getUniqueFileName(file, file.category)]

\* a name that is given a number when an earlier file of the list took it
derived_numbered(records) ==
    [k \in 1..Len(records) |->
        LET d     == derivedOf(records[k])
            taken == \E j \in 1..(k - 1) : derivedOf(records[j]).name = d.name
        IN  IF taken THEN [d EXCEPT !.name = stripMd(d.name) \o "-2.md"] ELSE d]

derived(records) == [k \in 1..Len(records) |-> derivedOf(records[k])]

InitRuns ==
    /\ pc = "runs"
    /\ cwd = "/p" /\ sep = "/"
    /\ allIgnoredPatterns = <<>>
    /\ \E l1 \in RunLists : \E l2 \in RunLists : \E now \in {0, 1} :
           arg = [first  |-> [k \in 1..Len(l1) |-> RecordOf(l1[k])],
                  second |-> [k \in 1..Len(l2) |-> RecordOf(l2[k])],
                  now    |-> now]
    /\ tree = {}
    /\ unreadable = {}
    /\ gitignore = [state |-> "absent", content |-> ""]
    /\ stack = <<>>
    /\ files = <<>>
    /\ visited = {}
    /\ fileInfos = <<>>
    /\ idx = 1
    /\ ret = [first |-> <<>>, second |-> <<>>]
    /\ NoDocs

FirstRun ==
    /\ pc = "runs"
    /\ ret.first = <<>>
    /\ ret' = [ret EXCEPT !.first = derived(arg.first)]
    /\ UNCHANGED <<pc, env, walk, cat, arg, docs>>

SecondRun ==
    /\ pc = "runs"
    /\ ret.second = <<>>
    /\ ret' = [ret EXCEPT !.second = derived(arg.second)]
    /\ UNCHANGED <<pc, env, walk, cat, arg, docs>>

RunsReturn ==
    /\ pc = "runs"
    /\ ret.first # <<>> /\ ret.second # <<>>
    /\ pc' = "returned"
    /\ UNCHANGED <<env, walk, cat, call, docs>>

NextRuns == FirstRun \/ SecondRun \/ RunsReturn

SpecRuns == InitRuns /\ [][NextRuns]_vars

SameFile(f, g) ==
    f.relativePath = g.relativePath /\ f.fileName = g.fileName /\ f.content = g.content

GenerateDisk ==
    { <<"src", "components", "Button.tsx">>,
      <<"src", "components", "ui", "Button.tsx">>,
      <<"app", "api", "users", "route.ts">>,
      <<"node_modules", "x.js">>,
      <<"Makefile">> }

InitGenerate ==
    /\ pc = "readCodebase"
    /\ cwd = "/p" /\ sep = "/"
    /\ tree \in {t \in SUBSET GenerateDisk : Cardinality(t) <= MaxFiles}
    /\ unreadable \in {u \in SUBSET (Dirs(tree) \cup tree) : Cardinality(u) <= MaxUnreadable}
    /\ gitignore \in GitignoreFiles
    /\ allIgnoredPatterns = <<>>
    /\ stack = <<>>
    /\ files = <<>>
    /\ visited = {}
    /\ fileInfos = <<>>
    /\ idx = 1
    /\ arg = Null
    /\ ret = Null
    /\ NoDocs

NextGenerate == Next \/ NextSidebar

SpecGenerate == InitGenerate /\ [][NextGenerate]_vars

WalkStages == {"readCodebase", "traverse"}

\* C22: the stages of one run never overlap. The list of files changes only
\* during the walk, before any file is classified; a file is classified only
\* after the walk has returned, from a list that no longer changes; generateDocs
\* starts only when every file of the list has been handled, and from then on
\* neither the list nor the records change.
C22_StagesInOrder ==
    /\ [](pc = "generateDocs" => idx > Len(files))
    /\ [][ /\ files' # files =>
                (pc \in WalkStages /\ fileInfos = <<>> /\ fileInfos' = <<>> /\ NoDocs)
           /\ fileInfos' # fileInfos =>
                (pc = "categorizeFiles" /\ stack = <<>> /\ files' = files /\ NoDocs)
           /\ docs' # docs =>
                ( /\ pc \notin (WalkStages \cup {"categorizeFiles"})
                  /\ files' = files /\ fileInfos' = fileInfos ) ]_vars

\* a run over two files has gone through the three stages
C22_Witness ==
    /\ pc = "done"
    /\ Len(files) = 2
    /\ Len(fileInfos) = 2
    /\ Len(written) >= 1

\* C23 (as claimed): only the final segment loses its extension; a directory
\* segment that holds a dot, such as v1.2, is in the route unchanged.
C23_DirectoryDotsKept ==
    pc = "returned" =>
        LET kept == StatedKept(InputSegments(arg.relativePath))
            out  == RouteSegments(ret.value)
        IN  \A k \in 1..(Len(kept) - 1) :
                (includes(kept[k], ".") /\ ~startsWith(kept[k], "[")) =>
                    (k <= Len(out) /\ out[k] = kept[k])

\* the index after export, white space, an optional async and function, tried at
\* index i of s: where the name of an exported function starts, or 0
ExportedNameAt(s, i) ==
    IF ~wordAt(s, i, "export") \/ skipSpaces(s, i + 6) = i + 6 THEN 0
    ELSE LET a == skipSpaces(s, i + 6)
             f == IF wordAt(s, a, "async") /\ skipSpaces(s, a + 5) > a + 5
                  THEN skipSpaces(s, a + 5) ELSE a
         IN  IF ~wordAt(s, f, "function") \/ skipSpaces(s, f + 8) = f + 8 THEN 0
             ELSE skipSpaces(s, f + 8)

IsIdentifierChar(c) == IsAlnum(c) \/ c \in {"_", "$"}

\* the verbs that are, in any letter case, the whole name of an exported function
ExactHandlers(content) ==
    LET s == toLowerCase(content)
    IN  {k \in 1..Len(HttpVerbs) :
            \E i \in 1..Len(s) :
                LET n == ExportedNameAt(s, i)
                    e == n + Len(HttpVerbs[k])
                IN  /\ n # 0
                    /\ wordAt(s, n, HttpVerbs[k])
                    /\ (e > Len(s) \/ ~IsIdentifierChar(At(s, e)))}

\* C24 (as claimed): where the content decides (a route file, or a name with no
\* verb before a dot), a content with no exported function named exactly
\* GET, POST, PUT, DELETE or PATCH yields the default get.
C24_ExactHandlerNameOnly ==
    (/\ pc = "returned"
     /\ IsRouteFile(arg.fileName) \/ Len(NameVerbs(arg.fileName)) = 0
     /\ ExactHandlers(arg.content) = {})
        => ret.value = "get"

\* the verbs that are a whole dot-delimited segment of the lower-cased name
SegmentVerbs(fileName) ==
    LET parts == split(toLowerCase(fileName), ".")
    IN  SelectSeq(HttpVerbs, LAMBDA v : \E k \in 1..Len(parts) : parts[k] = v)

\* C25 (as claimed): a file that is no route handler and has no verb as a whole
\* dot-delimited segment of its name takes the method of its content: the
\* exported handler, get when there is none.
C25_WholeSegmentVerbOnly ==
    (/\ pc = "returned"
     /\ ~IsRouteFile(arg.fileName)
     /\ Len(SegmentVerbs(arg.fileName)) = 0)
        => ret.value = (IF handlerVerb(arg.content) # "" THEN handlerVerb(arg.content)
                        ELSE "get")

(***************************************************************************)
(* The generation loop of generateDocs                                     *)
(***************************************************************************)
\* the loops over the categories and their files have ended
LoopEnded ==
    pc \in {"generateCategoryIndexes", "generateAstroConfig", "handleTranslations",
            "moveContentToAstroProject", "done", "failed"}

\* the writes of the document of a file, as positions of the log
WritesOf(relativePath) == {w \in 1..Len(written) : written[w].relativePath = relativePath}

\* the file system failed a write of this file
WriteFailed(relativePath) ==
    \E e \in 1..Len(errors) :
        errors[e].relativePath = relativePath /\ errors[e].error = "writeFile"

Reported(relativePath) == \E e \in 1..Len(errors) : errors[e].relativePath = relativePath

\* the document the artifact at a path holds: that of the last write there
ArtifactAt(p) ==
    LET ws == {w \in 1..Len(written) : written[w].path = p}
    IN  written[CHOOSE w \in ws : \A v \in ws : v <= w].doc

\* C26: after the loop, two files of one category that derive the same output
\* name, neither failed by the file system, were both written at one path; the
\* artifact there holds the document of the later file and nothing was reported
\* for either; a category none of whose writes failed has as many artifacts as
\* distinct output names, fewer than files when two names are the same.
C26_SameNameOverwrites ==
    LoopEnded =>
        /\ \A i \in 1..Len(Flat(grouped)) : \A j \in 1..Len(Flat(grouped)) :
               LET a == Flat(grouped)[i]
                   b == Flat(grouped)[j]
               IN  (/\ i < j
                    /\ a.category = b.category
                    /\ getUniqueFileName(a.file, a.category) = getUniqueFileName(b.file, b.category)
                    /\ ~WriteFailed(a.file.relativePath)
                    /\ ~WriteFailed(b.file.relativePath))
                   => /\ WritesOf(a.file.relativePath) # {}
                      /\ WritesOf(b.file.relativePath) # {}
                      /\ \A w \in WritesOf(a.file.relativePath) \cup WritesOf(b.file.relativePath) :
                             written[w].path = docPath(a.category, a.file)
                      /\ ArtifactAt(docPath(a.category, a.file)).of # a.file.relativePath
                      /\ ~Reported(a.file.relativePath)
                      /\ ~Reported(b.file.relativePath)
        /\ \A g \in 1..Len(grouped) :
               LET fs    == grouped[g].files
                   names == {getUniqueFileName(fs[k], grouped[g].category) : k \in 1..Len(fs)}
                   arts  == {written[w].path : w \in {v \in 1..Len(written) :
                                 \E k \in 1..Len(fs) : written[v].relativePath = fs[k].relativePath}}
               IN  (\A k \in 1..Len(fs) : ~WriteFailed(fs[k].relativePath))
                   => /\ Cardinality(arts) = Cardinality(names)
                      /\ (Cardinality(names) < Len(fs)) =
                             (\E k, l \in 1..Len(fs) :
                                  /\ k # l
                                  /\ getUniqueFileName(fs[k], grouped[g].category)
                                         = getUniqueFileName(fs[l], grouped[g].category))

\* two components named Button, both written: one artifact, of the second file
C26_Witness ==
    /\ LoopEnded
    /\ Len(grouped) = 1
    /\ Len(grouped[1].files) = 2
    /\ Len(written) = 2
    /\ written[1].path = written[2].path
    /\ written[1].relativePath # written[2].relativePath
    /\ Cardinality(Artifacts) = 1
    /\ ArtifactAt(written[1].path).of = written[2].relativePath
    /\ errors = <<>>

C30_IndexLinksNameArtifacts ==
    pc = "done" =>
        \A i \in 1..Len(indexes) :
            /\ Len(indexes[i].links) = Len(grouped[i].files)
            /\ \A k \in 1..Len(indexes[i].links) :
                   indexes[i].links[k] =
                       "./" \o stripMd(getUniqueFileName(grouped[i].files[k], grouped[i].category))

(***************************************************************************)
(* generateDocs with translation configured                                *)
(***************************************************************************)
TranslateSources ==
    { [relativePath |-> "src/components/Button.tsx", content |-> "export default function Button() {}"],
      [relativePath |-> "app/api/users/route.ts",    content |-> "export async function GET(req) {}"],
      [relativePath |-> "package.json",              content |-> "{}"] }

\* useTranslation, lingoApiKey and languages are set in the configuration
InitTranslate ==
    /\ pc = "generateDocs"
    /\ cwd = "/p" /\ sep = "/"
    /\ \E n \in 1..MaxSidebarFiles : \E srcs \in [1..n -> TranslateSources] :
           /\ \A i \in 1..n : \A j \in 1..n : i # j => srcs[i] # srcs[j]
           /\ fileInfos = [k \in 1..n |-> HostRecord(srcs[k])]
    /\ allIgnoredPatterns = <<>>
    /\ tree = {}
    /\ unreadable = {}
    /\ gitignore = [state |-> "absent", content |-> ""]
    /\ stack = <<>>
    /\ files = <<>>
    /\ visited = {}
    /\ idx = 1
    /\ arg = Null
    /\ ret = Null
    /\ grouped = <<>> /\ written = <<>> /\ sidebar = <<>>
    /\ errors = <<>> /\ indexes = <<>>
    /\ translation = [useTranslation |-> TRUE, result |-> "pending"]
    /\ output = {}
    /\ previous = [known |-> FALSE, records |-> <<>>]

SpecTranslate == InitTranslate /\ [][NextSidebar]_vars

\* C28 (as claimed): once handleTranslations has been called, however it ends,
\* generateDocs goes on to moveContentToAstroProject, and at the end of the run
\* every artifact is below the output directory.
C28_TranslationNeverBreaksGeneration ==
    (translation.useTranslation /\ translation.result # "pending") =>
        /\ pc \in {"moveContentToAstroProject", "done"}
        /\ pc = "done" =>
               \A p \in Artifacts :
                   (<<outputDir, "src", "content", "docs">> \o split(p, sep)) \in output

(***************************************************************************)
(* generate run a second time in the same directory                        *)
(***************************************************************************)
RerunDisk ==
    { <<"src", "components", "Button.tsx">>,
      <<"src", "components", "ui", "Button.tsx">>,
      <<"node_modules", "x.js">>,
      <<"Makefile">>,
      <<"temp-zen-docs-1", "content", "docs", "components", "Button-component.md">> }

\* the sources of the project, and possibly what an interrupted run left
InitRerun ==
    /\ pc = "readCodebase"
    /\ cwd = "/p" /\ sep = "/"
    /\ tree \in {t \in SUBSET RerunDisk : t # {} /\ Cardinality(t) <= MaxFiles}
    /\ unreadable \in {u \in SUBSET (Dirs(tree) \cup tree) : Cardinality(u) <= MaxUnreadable}
    /\ gitignore \in GitignoreFiles
    /\ allIgnoredPatterns = <<>>
    /\ stack = <<>>
    /\ files = <<>>
    /\ visited = {}
    /\ fileInfos = <<>>
    /\ idx = 1
    /\ arg = Null
    /\ ret = Null
    /\ NoDocs

\* the command is given again: the disk holds what the first run moved below
\* the output directory, and the run starts from readCodebase
Rerun ==
    /\ pc = "done"
    /\ ~previous.known
    /\ previous' = [known |-> TRUE, records |-> fileInfos]
    /\ tree' = tree \cup output
    /\ pc' = "readCodebase"
    /\ allIgnoredPatterns' = <<>> /\ stack' = <<>> /\ files' = <<>> /\ visited' = {}
    /\ fileInfos' = <<>> /\ idx' = 1
    /\ grouped' = <<>> /\ written' = <<>> /\ sidebar' = <<>>
    /\ errors' = <<>> /\ indexes' = <<>>
    /\ translation' = [translation EXCEPT !.result = "pending"]
    /\ UNCHANGED <<cwd, sep, unreadable, gitignore, call, output>>

\* the second run is followed up to its FileRecords
NextRerun ==
    \/ Next
    \/ (~previous.known /\ NextSidebar)
    \/ Rerun

SpecRerun == InitRerun /\ [][NextRerun]_vars

\* C29 (as claimed): the FileRecords of the second run are those of the first.
C29_SecondRunSameRecords ==
    (previous.known /\ pc = "generateDocs") =>
        {fileInfos[k] : k \in 1..Len(fileInfos)}
            = {previous.records[k] : k \in 1..Len(previous.records)}

====
